---------------------------- MODULE Spec2Model ----------------------------
(***************************************************************************)
(* Model of the notebook NRC-23_cmd_psf_phot.ipynb: comparison of the      *)
(* colour-magnitude diagram of the LMC input catalog with the one from     *)
(* PSF photometry.  Every code cell of the notebook is one action; the     *)
(* loops inside a cell are recursive operators.                            *)
(*                                                                         *)
(* Representation.                                                         *)
(*  - A Python str is the tuple of its character codes, so that slicing    *)
(*    (f[1:3]), float(), sorted() and glob prefixes are computed and not   *)
(*    assumed: "F115W" is <<70,49,49,53,87>>.                              *)
(*  - A Python dict is a function; {} is the function with empty domain.   *)
(*  - A path of the sorted glob result is its rank in that result.         *)
(*  - Pixel coordinates are in quarter pixels, sky coordinates in units of *)
(*    0.25 milli-arcsec on the tangent plane, fluxes are powers of ten.    *)
(***************************************************************************)
EXTENDS Integers, Sequences, FiniteSets, TLC

(***************************************************************************)
(* Python strings                                                          *)
(***************************************************************************)
NRCA5    == <<78, 82, 67, 65, 53>>
NRCB1    == <<78, 82, 67, 66, 49>>
NRCB5    == <<78, 82, 67, 66, 53>>
NRCALONG == <<78, 82, 67, 65, 76, 79, 78, 71>>
NRCBLONG == <<78, 82, 67, 66, 76, 79, 78, 71>>
NIS      == <<78, 73, 83>>
CLEAR    == <<67, 76, 69, 65, 82>>
F115W    == <<70, 49, 49, 53, 87>>
F150W2   == <<70, 49, 53, 48, 87, 50>>
F164N    == <<70, 49, 54, 52, 78>>
F200W    == <<70, 50, 48, 48, 87>>
F212N    == <<70, 50, 49, 50, 78>>
F250M    == <<70, 50, 53, 48, 77>>
F277W    == <<70, 50, 55, 55, 87>>
F356W    == <<70, 51, 53, 54, 87>>

\* The ten detector keys dict_images is created with.
DeclaredDetectors ==
    { <<78, 82, 67, 65, 49>>, <<78, 82, 67, 65, 50>>, <<78, 82, 67, 65, 51>>,
      <<78, 82, 67, 65, 52>>, NRCA5,
      NRCB1, <<78, 82, 67, 66, 50>>, <<78, 82, 67, 66, 51>>,
      <<78, 82, 67, 66, 52>>, NRCB5 }

\* a < b for Python str (code point order, a proper prefix sorts first)
RECURSIVE StrLess(_, _)
StrLess(a, b) ==
    IF a = <<>> THEN b # <<>>
    ELSE IF b = <<>> THEN FALSE
    ELSE IF Head(a) # Head(b) THEN Head(a) < Head(b)
    ELSE StrLess(Tail(a), Tail(b))

\* sorted(S) for a finite set of str
RECURSIVE SortedList(_)
SortedList(S) ==
    IF S = {} THEN <<>>
    ELSE LET m == CHOOSE x \in S : \A y \in S : x = y \/ StrLess(x, y)
         IN  <<m>> \o SortedList(S \ {m})

\* the set of items of a list: what dict.fromkeys(list) keeps
Items(list) == { list[i] : i \in DOMAIN list }

IsDigit(c) == c \in 48..57

\* float(f[1:3]) where both characters are decimal digits
FloatOfSlice13(f) == 10 * (f[2] - 48) + (f[3] - 48)

(***************************************************************************)
(* Python dicts                                                            *)
(***************************************************************************)
EmptyDict == << >>

\* dict[k] = v
DictSet(dict, k, v) ==
    [x \in (DOMAIN dict) \cup {k} |-> IF x = k THEN v ELSE dict[x]]

\* dict.setdefault(k, v)
SetDefault(dict, k, v) == IF k \in DOMAIN dict THEN dict ELSE DictSet(dict, k, v)

PyLen(dict) == Cardinality(DOMAIN dict)


(***************************************************************************)
(* Bounds of the model                                                     *)
(***************************************************************************)
\* most *cal.fits files in the images directory (first two cells alone)
MaxImages == 2
\* most executions of one cell when cells are re-executed by hand
MaxRuns == 2

(***************************************************************************)
(* State.  files is the content of the images directory in sorted-glob     *)
(* order and stale the pickles that an earlier run left in the photometry  *)
(* directory; they do not change.  pickles is the content of the           *)
(* photometry directory as the cell that reads it finds it.  rerun tells whether the  *)
(* first two cells are re-executed by hand or the notebook is run once     *)
(* from top to bottom; pc is the last cell that completed, err the         *)
(* exception that stopped the run; the other variables are the notebook's. *)
(***************************************************************************)
VARIABLES files, stale, pickles, rerun, pc, err, nEnum, nGroup,
          images, dict_images, dict_filter_short, dict_filter_long,
          ff_short, det_short, ff_long, det_long,
          detlist_short, detlist_long, filtlist_short, filtlist_long,
          det, filt1, filt2, images_1, images_2,
          phots_pkl_1, phots_pkl_2, results_1, results_2,
          results_clean_1, results_clean_2, results_final_1, results_final_2,
          matches_phot_1, matches_phot_2, cat, ra_lim, dec_lim, cat_sel,
          catalog1, catalog2, idx_inp, d2d_inp, sep_constraint_inp,
          match_phot_inp, match_phot_out_1, match_phot_out_2,
          col_inp, mag_inp, col_inp_match, mag_inp_match,
          col_out, mag_out, col_out_match, mag_out_match

world  == <<files, stale, rerun>>
vSel   == <<det, filt1, filt2>>
vImg   == <<images_1, images_2>>
vPhot  == <<pickles, phots_pkl_1, phots_pkl_2, results_1, results_2>>
vClean == <<results_clean_1, results_clean_2>>
vFinal == <<results_final_1, results_final_2>>
vMatch == <<matches_phot_1, matches_phot_2>>
vCat   == <<cat>>
vFov   == <<ra_lim, dec_lim, cat_sel>>
vInp   == <<catalog1, catalog2, idx_inp, d2d_inp, sep_constraint_inp,
            match_phot_inp, match_phot_out_1, match_phot_out_2>>
vCmd   == <<col_inp, mag_inp, col_inp_match, mag_inp_match,
            col_out, mag_out, col_out_match, mag_out_match>>
vLate  == <<vMatch, vCat, vFov, vInp, vCmd>>
ctl    == <<pc, err, nEnum, nGroup>>
vEnum  == <<images, dict_filter_short, dict_filter_long, ff_short, det_short,
            ff_long, det_long, detlist_short, detlist_long,
            filtlist_short, filtlist_long>>
vPipe  == <<vSel, vImg, vPhot, vClean, vFinal, vLate>>
vars   == <<world, ctl, vEnum, dict_images, vPipe>>

(***************************************************************************)
(* Cell 112ab581: enumerate the images by detector and filter              *)
(***************************************************************************)
\* if d == 'NRCBLONG': d = 'NRCB5' elif d == 'NRCALONG': d = 'NRCA5'
NormDetector(d) ==
    IF d = NRCBLONG THEN NRCB5 ELSE IF d = NRCALONG THEN NRCA5 ELSE d

\* if p == 'CLEAR': f = f else: f = p
EffectiveFilter(f, p) == IF p = CLEAR THEN f ELSE p

\* a variant that puts the threshold one filter number higher (wv > 25)
IsLongAbove25(f) == FloatOfSlice13(f) > 25

\* wv = float(f[1:3]); if wv > 24
IsLong(f) == FloatOfSlice13(f) > 24

\* for x in list: dict.setdefault(x, {})
RECURSIVE SetDefaultAll(_, _)
SetDefaultAll(dict, list) ==
    IF list = <<>> THEN dict
    ELSE SetDefaultAll(SetDefault(dict, Head(list), EmptyDict), Tail(list))

\* for k in list: dict[k] = copy.deepcopy(v)
RECURSIVE AssignAll(_, _, _)
AssignAll(dict, list, v) ==
    IF list = <<>> THEN dict
    ELSE AssignAll(DictSet(dict, Head(list), v), Tail(list), v)

\* the state the cell starts its loop with
EnumStart ==
    [ dict_images       |-> [d \in DeclaredDetectors |-> EmptyDict],
      dict_filter_short |-> EmptyDict, dict_filter_long |-> EmptyDict,
      ff_short |-> <<>>, det_short |-> <<>>, det_long |-> <<>>, ff_long |-> <<>>,
      detlist_short |-> <<>>, detlist_long |-> <<>>,
      filtlist_short |-> <<>>, filtlist_long |-> <<>> ]

\* one iteration of "for image in images" on the header hdr
EnumStep(st, hdr) ==
    LET d    == NormDetector(hdr.DETECTOR)
        f    == EffectiveFilter(hdr.FILTER, hdr.PUPIL)
        long == IsLong(f)
        ffl  == IF long THEN Append(st.ff_long, f) ELSE st.ff_long
        dl   == IF long THEN Append(st.det_long, d) ELSE st.det_long
        ffs  == IF long THEN st.ff_short ELSE Append(st.ff_short, f)
        ds   == IF long THEN st.det_short ELSE Append(st.det_short, d)
        dls  == SortedList(Items(ds))
        dll  == SortedList(Items(dl))
        dfs  == SetDefaultAll(st.dict_filter_short, ffs)
        dfl  == SetDefaultAll(st.dict_filter_long, ffl)
        di   == AssignAll(AssignAll(st.dict_images, dls, dfs), dll, dfl)
    IN  [ dict_images       |-> di,
          dict_filter_short |-> dfs, dict_filter_long |-> dfl,
          ff_short |-> ffs, det_short |-> ds, det_long |-> dl, ff_long |-> ffl,
          detlist_short |-> dls, detlist_long |-> dll,
          filtlist_short |-> SortedList(DOMAIN dfs),
          filtlist_long  |-> SortedList(DOMAIN dfl) ]

\* the loop over images[k..]
RECURSIVE EnumLoop(_, _)
EnumLoop(st, k) ==
    IF k > Len(files) THEN st ELSE EnumLoop(EnumStep(st, files[k]), k + 1)

\* images = sorted(glob.glob(...)): the paths in sorted order
SortedGlob == [i \in 1..Len(files) |-> i]

Enumerate ==
    /\ err = "none"
    /\ IF pc = "start" THEN TRUE
       ELSE rerun /\ pc \in {"enumerated", "grouped"} /\ nEnum < MaxRuns
    /\ LET st == EnumLoop(EnumStart, 1)
       IN  /\ images' = SortedGlob
           /\ dict_images' = st.dict_images
           /\ dict_filter_short' = st.dict_filter_short
           /\ dict_filter_long' = st.dict_filter_long
           /\ ff_short' = st.ff_short
           /\ det_short' = st.det_short
           /\ ff_long' = st.ff_long
           /\ det_long' = st.det_long
           /\ detlist_short' = st.detlist_short
           /\ detlist_long' = st.detlist_long
           /\ filtlist_short' = st.filtlist_short
           /\ filtlist_long' = st.filtlist_long
    /\ nEnum' = nEnum + 1
    /\ pc' = "enumerated"
    /\ UNCHANGED <<world, err, nGroup, vPipe>>

(***************************************************************************)
(* Cell 3403ab9d: group the image paths by detector and filter             *)
(***************************************************************************)
\* one iteration on path image; r = [dict, err]
GroupStep(r, image) ==
    LET hdr == files[image]
        d   == NormDetector(hdr.DETECTOR)
        f   == EffectiveFilter(hdr.FILTER, hdr.PUPIL)
    IN  IF d \notin DOMAIN r.dict THEN [r EXCEPT !.err = "KeyError"]
        ELSE IF f \notin DOMAIN r.dict[d] THEN [r EXCEPT !.err = "KeyError"]
        ELSE IF PyLen(r.dict[d][f]) = 0
             THEN [r EXCEPT !.dict = DictSet(r.dict, d,
                                DictSet(r.dict[d], f, [images |-> <<image>>]))]
             ELSE [r EXCEPT !.dict = DictSet(r.dict, d,
                                DictSet(r.dict[d], f,
                                   [images |-> Append(r.dict[d][f].images, image)]))]

\* the loop over list[k..]; it ends at the first exception
RECURSIVE GroupLoop(_, _, _)
GroupLoop(r, list, k) ==
    IF k > Len(list) THEN r
    ELSE IF r.err # "none" THEN r
    ELSE GroupLoop(GroupStep(r, list[k]), list, k + 1)

Group ==
    /\ err = "none"
    /\ IF pc = "enumerated" THEN TRUE
       ELSE rerun /\ pc = "grouped" /\ nGroup < MaxRuns
    /\ LET r == GroupLoop([dict |-> dict_images, err |-> "none"], images, 1)
       IN  /\ dict_images' = r.dict
           /\ err' = r.err
           /\ pc' = IF r.err = "none" THEN "grouped" ELSE pc
    /\ nGroup' = nGroup + 1
    /\ UNCHANGED <<world, nEnum, vEnum, vPipe>>

(***************************************************************************)
(* Cell 635a6072: select detector/filter to analyze.  The cell assigns     *)
(* NRCB1, F115W, F200W; it is the cell the user edits to analyze another   *)
(* detector, so the model draws the three names from Selections.           *)
(***************************************************************************)
Selections == { <<NRCB1, F115W, F200W>>, <<NRCB5, F277W, F356W>> }

Select ==
    /\ err = "none" /\ pc = "grouped"
    /\ \E sel \in Selections :
          /\ det' = sel[1] /\ filt1' = sel[2] /\ filt2' = sel[3]
    /\ pc' = "selected"
    /\ UNCHANGED <<world, err, nEnum, nGroup, vEnum, dict_images,
                   vImg, vPhot, vClean, vFinal, vLate>>

(***************************************************************************)
(* Cell d0e11c2a: transform the images to data models                      *)
(***************************************************************************)
\* dict_images[d][f]['images'] raises no KeyError
HasImages(d, f) ==
    IF d \notin DOMAIN dict_images THEN FALSE
    ELSE IF f \notin DOMAIN dict_images[d] THEN FALSE
    ELSE "images" \in DOMAIN dict_images[d][f]

\* ImageModel(path): the data array's shape (ny, nx) and the WCS of the file
ImageModel(path) ==
    [path |-> path, shape |-> files[path].shape, wcs |-> files[path].wcs]

\* [ImageModel(p) for p in dict_images[d][f]['images']]
ImageModels(d, f) ==
    [i \in DOMAIN dict_images[d][f].images |->
        ImageModel(dict_images[d][f].images[i])]

LoadImages ==
    /\ err = "none" /\ pc = "selected"
    /\ images_1' = IF HasImages(det, filt1) THEN ImageModels(det, filt1) ELSE <<>>
    /\ images_2' = IF HasImages(det, filt1) /\ HasImages(det, filt2)
                   THEN ImageModels(det, filt2) ELSE <<>>
    /\ err' = IF HasImages(det, filt1) /\ HasImages(det, filt2)
              THEN "none" ELSE "KeyError"
    /\ pc' = IF HasImages(det, filt1) /\ HasImages(det, filt2)
             THEN "images" ELSE pc
    /\ UNCHANGED <<world, nEnum, nGroup, vEnum, dict_images,
                   vSel, vPhot, vClean, vFinal, vLate>>

(***************************************************************************)
(* Cell 176152cb: load the PSF photometry catalogs.  A pickle of the       *)
(* photometry directory is [det, name, of, rows]: its file name is         *)
(* 'phot_' + det + '_' + name + '.pkl', of is the image path the           *)
(* photometry was measured on and rows is the pickled table.               *)
(***************************************************************************)
\* str.lower(s)
Lower(s) == [i \in DOMAIN s |-> IF s[i] \in 65..90 THEN s[i] + 32 ELSE s[i]]

IsPrefix(a, b) == Len(a) <= Len(b) /\ SubSeq(b, 1, Len(a)) = a

\* sorted(glob.glob(os.path.join(cat_dir, 'phot_'+str.lower(d)+'_'+f+'*.pkl')))
\* in the directory dir
PickleGlob(dir, d, f) ==
    SortedList({ p.name : p \in { q \in dir :
                     q.det = Lower(d) /\ IsPrefix(f, q.name) } })

\* the pickle of detector d that the file name stands for
PickleNamed(dir, d, name) ==
    CHOOSE p \in dir : p.det = Lower(d) /\ p.name = name

\* [QTable.from_pandas(pd.read_pickle(n)) for n in names]
ReadPickles(dir, d, names) ==
    [i \in DOMAIN names |-> PickleNamed(dir, d, names[i]).rows]

\* rows of a photometry table: a, b and c lie a quarter pixel apart on one
\* line, zero has no flux and out lies beyond the last column
RowA    == [x_fit |-> 2,  y_fit |-> 2, flux_fit |-> 10,  flux_unc |-> 1]
RowB    == [x_fit |-> 3,  y_fit |-> 2, flux_fit |-> 100, flux_unc |-> 1]
RowC    == [x_fit |-> 4,  y_fit |-> 2, flux_fit |-> 1,   flux_unc |-> 1]
RowZero == [x_fit |-> 2,  y_fit |-> 2, flux_fit |-> 0,   flux_unc |-> 1]
RowOut  == [x_fit |-> 12, y_fit |-> 2, flux_fit |-> 10,  flux_unc |-> 1]

Tables == { <<RowA, RowC>>, <<RowB, RowZero>>, <<RowC, RowOut>>, <<RowZero>> }
\* the tables drawn for the images of a long-wavelength detector
TablesLong == { <<RowA, RowC>>, <<RowB, RowZero>> }
TablesFor(d) == IF NormDetector(d) \in {NRCA5, NRCB5} THEN TablesLong ELSE Tables


\* the pickle of the photometry of image i: 'phot_<det>_<filter>_<i>.pkl'
PickleOf(fs, i, rows) ==
    [det  |-> Lower(NormDetector(fs[i].DETECTOR)),
     name |-> EffectiveFilter(fs[i].FILTER, fs[i].PUPIL) \o <<95, 48 + i>>,
     of   |-> i, rows |-> rows]

\* the photometry run writes one pickle for every image of the images
\* directory
PickleDirs ==
    { { PickleOf(files, i, tables[i]) : i \in DOMAIN files } :
        tables \in [DOMAIN files -> UNION { TablesFor(files[i].DETECTOR) :
                                              i \in DOMAIN files }] }

LoadPhot ==
    /\ err = "none" /\ pc = "images"
    /\ \E fresh \in PickleDirs :
       LET dir == fresh \cup stale
       IN /\ pickles' = dir
          /\ phots_pkl_1' = PickleGlob(dir, det, filt1)
          /\ phots_pkl_2' = PickleGlob(dir, det, filt2)
          /\ results_1' = ReadPickles(dir, det, PickleGlob(dir, det, filt1))
          /\ results_2' = ReadPickles(dir, det, PickleGlob(dir, det, filt2))
    /\ pc' = "phot"
    /\ UNCHANGED <<world, err, nEnum, nGroup, vEnum, dict_images,
                   vSel, vImg, vClean, vFinal, vLate>>

(***************************************************************************)
(* Cell 114111b9: clean the catalogs                                       *)
(***************************************************************************)
\* np.log10 of a power of ten
RECURSIVE Log10(_)
Log10(flux) == IF flux < 10 THEN 0 ELSE 1 + Log10(flux \div 10)

\* the mask of one row against the shape (ny, nx):
\* (x_fit > 0) & (x_fit < shape[1]) & (y_fit > 0) & (y_fit < shape[0]) & (flux_fit > 0)
Mask(row, shape) ==
    /\ row.x_fit > 0 /\ row.x_fit < shape[2]
    /\ row.y_fit > 0 /\ row.y_fit < shape[1]
    /\ row.flux_fit > 0

\* table[mask]
RECURSIVE SelectRows(_, _)
SelectRows(table, mask) ==
    IF table = <<>> THEN <<>>
    ELSE IF Head(mask) THEN <<Head(table)>> \o SelectRows(Tail(table), Tail(mask))
    ELSE SelectRows(Tail(table), Tail(mask))

\* the two new columns of a masked row: -2.5 * log10(flux_fit) in units of
\* half a magnitude, and 1.086 * flux_unc / flux_fit as <<numerator, denominator>>
WithMagnitude(row) ==
    [ x_fit |-> row.x_fit, y_fit |-> row.y_fit,
      flux_fit |-> row.flux_fit, flux_unc |-> row.flux_unc,
      inst   |-> -5 * Log10(row.flux_fit),
      e_inst |-> <<1086 * row.flux_unc, 1000 * row.flux_fit>> ]

\* the body of the loop for index i (from 1): the shape is images[0].shape
CleanTable(table, imgs, i) ==
    LET mask  == [k \in DOMAIN table |-> Mask(table[k], imgs[1].shape)]
        clean == SelectRows(table, mask)
    IN  [k \in DOMAIN clean |-> WithMagnitude(clean[k])]

\* for i in np.arange(0, len(imgs), 1), from index k on; r = [list, err];
\* results[i] raises IndexError past the end of results
RECURSIVE CleanLoop(_, _, _, _)
CleanLoop(r, imgs, results, k) ==
    IF k > Len(imgs) THEN r
    ELSE IF k > Len(results) THEN [r EXCEPT !.err = "IndexError"]
    ELSE CleanLoop([r EXCEPT !.list = Append(r.list, CleanTable(results[k], imgs, k))],
                   imgs, results, k + 1)

Clean ==
    /\ err = "none" /\ pc = "phot"
    /\ LET r1 == CleanLoop([list |-> <<>>, err |-> "none"], images_1, results_1, 1)
           r2 == IF r1.err = "none"
                 THEN CleanLoop([list |-> <<>>, err |-> "none"], images_2, results_2, 1)
                 ELSE [list |-> <<>>, err |-> r1.err]
       IN  /\ results_clean_1' = r1.list
           /\ results_clean_2' = r2.list
           /\ err' = r2.err
           /\ pc' = IF r2.err = "none" THEN "clean" ELSE pc
    /\ UNCHANGED <<world, nEnum, nGroup, vEnum, dict_images,
                   vSel, vImg, vPhot, vFinal, vLate>>

(***************************************************************************)
(* Cell 2231f468: transform pixel to equatorial coordinates.  A WCS is     *)
(* [ra0, dec0, sra, sdec, scale]: the sky position of pixel (0, 0), the    *)
(* directions in which right ascension and declination grow with x and y,  *)
(* and the sky units per quarter pixel.                                    *)
(***************************************************************************)
\* wcs(x, y)
WcsApply(w, x, y) ==
    [ra |-> w.ra0 + w.sra * w.scale * x, dec |-> w.dec0 + w.sdec * w.scale * y]

\* result['radec'] = SkyCoord(*img.meta.wcs(result['x_fit'], result['y_fit']))
WithRadec(table, img) ==
    [k \in DOMAIN table |->
        [ x_fit |-> table[k].x_fit, y_fit |-> table[k].y_fit,
          flux_fit |-> table[k].flux_fit, flux_unc |-> table[k].flux_unc,
          inst |-> table[k].inst, e_inst |-> table[k].e_inst,
          radec |-> WcsApply(img.wcs, table[k].x_fit, table[k].y_fit) ]]

\* the loop: table i gets the coordinates of image i
FinalTables(cleans, imgs) ==
    [i \in DOMAIN imgs |-> WithRadec(cleans[i], imgs[i])]

\* result_final is the table object results_clean[i] itself, so the new
\* column shows in results_clean as well
Coord ==
    /\ err = "none" /\ pc = "clean"
    /\ results_final_1' = FinalTables(results_clean_1, images_1)
    /\ results_final_2' = FinalTables(results_clean_2, images_2)
    /\ results_clean_1' = FinalTables(results_clean_1, images_1)
    /\ results_clean_2' = FinalTables(results_clean_2, images_2)
    /\ pc' = "radec"
    /\ UNCHANGED <<world, err, nEnum, nGroup, vEnum, dict_images,
                   vSel, vImg, vPhot, vLate>>

(***************************************************************************)
(* Cell a7f746c0: cross-match the catalogs of the two filters.             *)
(* match_coordinates_sky(a, b) gives for every row of a the index of the   *)
(* nearest row of b and the separation; it raises ValueError when b is     *)
(* empty.  A separation is kept as its square, in sky units squared.       *)
(* Among equally near rows the library returns one; tie tells which.       *)
(***************************************************************************)
\* max_sep = 0.5, in halves
MaxSepHalves == 1
\* pixelscale = 0.031 arcsec, in sky units of 0.25 milli-arcsec
PixelScale == 124

TieBreaks == {"lowest", "highest"}

\* the square of the separation of two sky positions
Sep2(p, q) == (p.ra - q.ra) * (p.ra - q.ra) + (p.dec - q.dec) * (p.dec - q.dec)

\* idx of one position in the non-empty list of positions
NearestIndex(p, coords, tie) ==
    LET near == { k \in DOMAIN coords :
                    \A m \in DOMAIN coords : Sep2(p, coords[k]) <= Sep2(p, coords[m]) }
    IN  IF tie = "lowest"
        THEN CHOOSE k \in near : \A m \in near : k <= m
        ELSE CHOOSE k \in near : \A m \in near : k >= m

\* two variants of the separation test: one that accepts a separation of
\* exactly max_sep, one that takes the pixel scale of the selected detector
\* (0.063 arcsec on a long-wavelength detector)
SepConstraintInclusive(d2) ==
    4 * d2 <= (MaxSepHalves * PixelScale) * (MaxSepHalves * PixelScale)
SepConstraintOfDetector(d2) ==
    LET scale == IF det \in {NRCA5, NRCB5} THEN 252 ELSE PixelScale
    IN  4 * d2 < (MaxSepHalves * scale) * (MaxSepHalves * scale)

\* (d2d.arcsec / pixelscale) < max_sep, for the squared separation d2
SepConstraint(d2) ==
    4 * d2 < (MaxSepHalves * PixelScale) * (MaxSepHalves * PixelScale)

Radec(table) == [k \in DOMAIN table |-> table[k].radec]

\* idx, d2d, _ = match_coordinates_sky(a, b), b not empty
MatchIdx(a, b, tie) == [k \in DOMAIN a |-> NearestIndex(a[k], b, tie)]
MatchD2d(a, b, tie) == [k \in DOMAIN a |-> Sep2(a[k], b[NearestIndex(a[k], b, tie)])]

\* a variant that leaves the mask out: table[idx]
TakeRowsUnmasked(table, idx, mask) == [k \in DOMAIN idx |-> table[idx[k]]]

\* table[idx[mask]]
RECURSIVE TakeRows(_, _, _)
TakeRows(table, idx, mask) ==
    IF idx = <<>> THEN <<>>
    ELSE IF Head(mask) THEN <<table[Head(idx)]>> \o TakeRows(table, Tail(idx), Tail(mask))
    ELSE TakeRows(table, Tail(idx), Tail(mask))

\* the body of the inner loop; r = [m1, m2, err]
MatchStep(r, res1, res2, tie) ==
    IF Len(res2) = 0 THEN [r EXCEPT !.err = "ValueError"]
    ELSE LET idx  == MatchIdx(Radec(res1), Radec(res2), tie)
             d2d  == MatchD2d(Radec(res1), Radec(res2), tie)
             sep_constraint == [k \in DOMAIN d2d |-> SepConstraint(d2d[k])]
         IN  [r EXCEPT !.m1 = Append(r.m1, SelectRows(res1, sep_constraint)),
                       !.m2 = Append(r.m2, TakeRows(res2, idx, sep_constraint))]

\* a variant of the inner loop that matches res1 with the first catalog of
\* list2 only
InnerLoopFirstOnly(r, res1, list2, j, tie) ==
    IF j > Len(list2) THEN r
    ELSE IF r.err # "none" THEN r
    ELSE MatchStep(r, res1, list2[j], tie)

\* for res2 in list2, from index j on
RECURSIVE InnerLoop(_, _, _, _, _)
InnerLoop(r, res1, list2, j, tie) ==
    IF j > Len(list2) THEN r
    ELSE IF r.err # "none" THEN r
    ELSE InnerLoop(MatchStep(r, res1, list2[j], tie), res1, list2, j + 1, tie)

\* for res1 in list1, from index i on
RECURSIVE OuterLoop(_, _, _, _, _)
OuterLoop(r, list1, list2, i, tie) ==
    IF i > Len(list1) THEN r
    ELSE IF r.err # "none" THEN r
    ELSE OuterLoop(InnerLoop(r, list1[i], list2, 1, tie), list1, list2, i + 1, tie)

CrossMatch ==
    /\ err = "none" /\ pc = "radec"
    /\ \E tie \in TieBreaks :
          LET r == OuterLoop([m1 |-> <<>>, m2 |-> <<>>, err |-> "none"],
                             results_final_1, results_final_2, 1, tie)
          IN  /\ matches_phot_1' = r.m1
              /\ matches_phot_2' = r.m2
              /\ err' = r.err
              /\ pc' = IF r.err = "none" THEN "matched" ELSE pc
    /\ UNCHANGED <<world, nEnum, nGroup, vEnum, dict_images,
                   vSel, vImg, vPhot, vClean, vFinal, vCat, vFov, vInp, vCmd>>

(***************************************************************************)
(* Cell b9d632f0: import the LMC catalog.  usecols=(0,1,2,5,13) keeps the  *)
(* columns index, ra_in, dec_in, F115W and F200W of the file.              *)
(***************************************************************************)
\* rows of the input catalog: at RowA on NRCB1, a quarter pixel beyond RowC
\* on NRCB1, in the field but far from every source, outside the field, on
\* the edge of the field, and at RowA on NRCB5
StarA    == [ra_in |-> 938,  dec_in |-> 62,  F115W |-> 18, F200W |-> 17]
StarC    == [ra_in |-> 845,  dec_in |-> 62,  F115W |-> 20, F200W |-> 20]
StarFar  == [ra_in |-> 800,  dec_in |-> 200, F115W |-> 15, F200W |-> 16]
StarOut  == [ra_in |-> 1200, dec_in |-> 62,  F115W |-> 21, F200W |-> 19]
StarEdge == [ra_in |-> 752,  dec_in |-> 62,  F115W |-> 22, F200W |-> 22]
StarL    == [ra_in |-> 874,  dec_in |-> 126, F115W |-> 14, F200W |-> 13]

Catalogs == { <<StarOut, StarC, StarA>>, <<StarA, StarFar, StarEdge, StarL>> }

\* the rows of the catalog file with the index column read_csv keeps
WithIndex(rows) ==
    [k \in DOMAIN rows |->
        [index |-> k, ra_in |-> rows[k].ra_in, dec_in |-> rows[k].dec_in,
         F115W |-> rows[k].F115W, F200W |-> rows[k].F200W]]

CatColumns == {F115W, F200W}

\* cat[f] of one row, f one of CatColumns
Column(row, f) == IF f = F115W THEN row.F115W ELSE row.F200W

LoadCat ==
    /\ err = "none" /\ pc = "matched"
    /\ cat' \in { WithIndex(c) : c \in Catalogs }
    /\ pc' = "cat"
    /\ UNCHANGED <<world, err, nEnum, nGroup, vEnum, dict_images,
                   vSel, vImg, vPhot, vClean, vFinal, vMatch, vFov, vInp, vCmd>>

(***************************************************************************)
(* Cell cc9979c2: select the sub-region coincident with the field of view  *)
(***************************************************************************)
\* sorted([a, b]) of two numbers
Sorted2(a, b) == IF a <= b THEN <<a, b>> ELSE <<b, a>>

\* ra_lim0, dec_lim0 = wcs(0, 0); ra_lim1, dec_lim1 = wcs(xlim1 - 1, ylim1 - 1):
\* one pixel is 4 quarter pixels
Corner0(img) == WcsApply(img.wcs, 0, 0)
Corner1(img) == WcsApply(img.wcs, img.shape[2] - 4, img.shape[1] - 4)

\* ra_lim = sorted([ra_lim0, ra_lim1])
RaLim(img) == Sorted2(Corner0(img).ra, Corner1(img).ra)
\* dec_lim = [dec_lim0, dec_lim1]
DecLim(img) == <<Corner0(img).dec, Corner1(img).dec>>

\* cat.loc[(ra_in > ra_lim[0]) & (ra_in < ra_lim[1]) & (dec_in > dec_lim[0]) & (dec_in < dec_lim[1])]
InFov(row, ral, decl) ==
    /\ row.ra_in > ral[1] /\ row.ra_in < ral[2]
    /\ row.dec_in > decl[1] /\ row.dec_in < decl[2]

SelectFov ==
    /\ err = "none" /\ pc = "cat"
    /\ IF Len(images_1) = 0
       THEN /\ err' = "IndexError" /\ pc' = pc
            /\ UNCHANGED vFov
       ELSE /\ ra_lim' = RaLim(images_1[1])
            /\ dec_lim' = DecLim(images_1[1])
            /\ cat_sel' = SelectRows(cat,
                   [k \in DOMAIN cat |->
                       InFov(cat[k], RaLim(images_1[1]), DecLim(images_1[1]))])
            /\ err' = "none" /\ pc' = "fov"
    /\ UNCHANGED <<world, nEnum, nGroup, vEnum, dict_images,
                   vSel, vImg, vPhot, vClean, vFinal, vMatch, vCat, vInp, vCmd>>

(***************************************************************************)
(* Cell dc5577fc: cross-match with the LMC catalog                         *)
(***************************************************************************)
\* SkyCoord(cat_sel['ra_in'], cat_sel['dec_in'], unit='deg')
RadecInput(sel) == [k \in DOMAIN sel |-> [ra |-> sel[k].ra_in, dec |-> sel[k].dec_in]]

\* the rows of match_phot_inp with the columns assigned before the first
\* KeyError: radec, then filt1, then filt2
InpRows(sel, mask, f1, f2) ==
    LET rows == SelectRows(sel, mask)
    IN  IF f1 \notin CatColumns
        THEN [k \in DOMAIN rows |->
                [radec |-> [ra |-> rows[k].ra_in, dec |-> rows[k].dec_in]]]
        ELSE IF f2 \notin CatColumns
        THEN [k \in DOMAIN rows |->
                [radec |-> [ra |-> rows[k].ra_in, dec |-> rows[k].dec_in],
                 filt1 |-> Column(rows[k], f1)]]
        ELSE [k \in DOMAIN rows |->
                [radec |-> [ra |-> rows[k].ra_in, dec |-> rows[k].dec_in],
                 filt1 |-> Column(rows[k], f1), filt2 |-> Column(rows[k], f2)]]

MatchInp ==
    /\ err = "none" /\ pc = "fov"
    /\ IF Len(matches_phot_1) = 0
       THEN /\ err' = "IndexError" /\ pc' = pc
            /\ UNCHANGED vInp
       ELSE /\ catalog1' = matches_phot_1[1]
            /\ catalog2' = matches_phot_2[1]
            /\ IF Len(matches_phot_1[1]) = 0
               THEN /\ err' = "ValueError" /\ pc' = pc
                    /\ UNCHANGED <<idx_inp, d2d_inp, sep_constraint_inp,
                            match_phot_inp, match_phot_out_1, match_phot_out_2>>
               ELSE \E tie \in TieBreaks :
                      LET c1   == matches_phot_1[1]
                          c2   == matches_phot_2[1]
                          idx  == MatchIdx(RadecInput(cat_sel), Radec(c1), tie)
                          d2d  == MatchD2d(RadecInput(cat_sel), Radec(c1), tie)
                          mask == [k \in DOMAIN d2d |-> SepConstraint(d2d[k])]
                          ok   == filt1 \in CatColumns /\ filt2 \in CatColumns
                      IN  /\ idx_inp' = idx
                          /\ d2d_inp' = d2d
                          /\ sep_constraint_inp' = mask
                          /\ match_phot_inp' = InpRows(cat_sel, mask, filt1, filt2)
                          /\ match_phot_out_1' =
                                IF ok THEN TakeRows(c1, idx, mask) ELSE match_phot_out_1
                          /\ match_phot_out_2' =
                                IF ok THEN TakeRows(c2, idx, mask) ELSE match_phot_out_2
                          /\ err' = IF ok THEN "none" ELSE "KeyError"
                          /\ pc' = IF ok THEN "lmc" ELSE pc
    /\ UNCHANGED <<world, nEnum, nGroup, vEnum, dict_images,
                   vSel, vImg, vPhot, vClean, vFinal, vMatch, vCat, vFov, vCmd>>

(***************************************************************************)
(* Cell 4cda65c3: the two colour-magnitude diagrams                        *)
(***************************************************************************)
Cmd ==
    /\ err = "none" /\ pc = "lmc"
    /\ col_inp' = [k \in DOMAIN cat_sel |->
                      Column(cat_sel[k], filt1) - Column(cat_sel[k], filt2)]
    /\ mag_inp' = [k \in DOMAIN cat_sel |-> Column(cat_sel[k], filt1)]
    /\ col_inp_match' = [k \in DOMAIN match_phot_inp |->
                            match_phot_inp[k].filt1 - match_phot_inp[k].filt2]
    /\ mag_inp_match' = [k \in DOMAIN match_phot_inp |-> match_phot_inp[k].filt1]
    /\ col_out' = [k \in DOMAIN catalog1 |-> catalog1[k].inst - catalog2[k].inst]
    /\ mag_out' = [k \in DOMAIN catalog1 |-> catalog1[k].inst]
    /\ col_out_match' = [k \in DOMAIN match_phot_out_1 |->
                            match_phot_out_1[k].inst - match_phot_out_2[k].inst]
    /\ mag_out_match' = [k \in DOMAIN match_phot_out_1 |-> match_phot_out_1[k].inst]
    /\ pc' = "cmd"
    /\ UNCHANGED <<world, err, nEnum, nGroup, vEnum, dict_images,
                   vSel, vImg, vPhot, vClean, vFinal, vMatch, vCat, vFov, vInp>>

(***************************************************************************)
(* The images directory                                                    *)
(***************************************************************************)
\* DETECTOR keywords: a short-wavelength detector, a long-wavelength one
\* under its header name, and one that dict_images does not declare
HeaderDetectors == {NRCB1, NRCBLONG, NIS}
\* FILTER and PUPIL keywords; with PUPIL F164N the wheel holds F150W2
HeaderFilters ==
    { <<F115W, CLEAR>>, <<F212N, CLEAR>>, <<F250M, CLEAR>>, <<F150W2, F164N>> }

AnyHeader ==
    { [DETECTOR |-> d, FILTER |-> fp[1], PUPIL |-> fp[2]] :
        d \in HeaderDetectors, fp \in HeaderFilters }

SeqsUpTo(S, n) == UNION { [1..k -> S] : k \in 0..n }

InitNotebook ==
    /\ pc = "start" /\ err = "none" /\ nEnum = 0 /\ nGroup = 0
    /\ images = <<>> /\ dict_images = EmptyDict
    /\ dict_filter_short = EmptyDict /\ dict_filter_long = EmptyDict
    /\ ff_short = <<>> /\ det_short = <<>> /\ ff_long = <<>> /\ det_long = <<>>
    /\ detlist_short = <<>> /\ detlist_long = <<>>
    /\ filtlist_short = <<>> /\ filtlist_long = <<>>
    /\ det = <<>> /\ filt1 = <<>> /\ filt2 = <<>>
    /\ images_1 = <<>> /\ images_2 = <<>>
    /\ pickles = {}
    /\ phots_pkl_1 = <<>> /\ phots_pkl_2 = <<>>
    /\ results_1 = <<>> /\ results_2 = <<>>
    /\ results_clean_1 = <<>> /\ results_clean_2 = <<>>
    /\ results_final_1 = <<>> /\ results_final_2 = <<>>
    /\ matches_phot_1 = <<>> /\ matches_phot_2 = <<>>
    /\ cat = <<>> /\ ra_lim = <<>> /\ dec_lim = <<>> /\ cat_sel = <<>>
    /\ catalog1 = <<>> /\ catalog2 = <<>>
    /\ idx_inp = <<>> /\ d2d_inp = <<>> /\ sep_constraint_inp = <<>>
    /\ match_phot_inp = <<>>
    /\ match_phot_out_1 = <<>> /\ match_phot_out_2 = <<>>
    /\ col_inp = <<>> /\ mag_inp = <<>>
    /\ col_inp_match = <<>> /\ mag_inp_match = <<>>
    /\ col_out = <<>> /\ mag_out = <<>>
    /\ col_out_match = <<>> /\ mag_out_match = <<>>

\* the first two cells, executed and re-executed by hand, on any directory
InitEnum ==
    /\ files \in SeqsUpTo(AnyHeader, MaxImages)
    /\ stale = {}
    /\ rerun = TRUE
    /\ InitNotebook

NextEnum == Enumerate \/ Group

SpecEnum == InitEnum /\ [][NextEnum]_vars

(***************************************************************************)
(* The whole notebook, run once from top to bottom, on a directory that    *)
(* holds the images of one detector in two filters, the pickled photometry *)
(* of every image, and an input catalog.                                   *)
(***************************************************************************)
\* most images of one filter
MaxPerFilter == 2

\* n1 images in the first filter followed by n2 images in the second
ImageFiles(ch, n1, n2, geom) ==
    [i \in 1..(n1 + n2) |->
        [DETECTOR |-> ch.DETECTOR,
         FILTER |-> IF i <= n1 THEN ch.filtA ELSE ch.filtB,
         PUPIL |-> CLEAR, shape |-> geom[i].shape, wcs |-> geom[i].wcs]]

\* a detector with its two filters, the shape (ny, nx) of its images in
\* quarter pixels and their WCS: right ascension falls with x, and a quarter
\* pixel is 31 sky units on a short-wavelength detector (0.031 arcsec per
\* pixel) and 63 on a long-wavelength one (0.063 arcsec per pixel)
Channels ==
    { [DETECTOR |-> NRCB1, filtA |-> F115W, filtB |-> F200W, shape |-> <<12, 12>>,
       wcs |-> [ra0 |-> 1000, dec0 |-> 0, sra |-> -1, sdec |-> 1, scale |-> 31]],
      [DETECTOR |-> NRCBLONG, filtA |-> F277W, filtB |-> F356W, shape |-> <<12, 12>>,
       wcs |-> [ra0 |-> 1000, dec0 |-> 0, sra |-> -1, sdec |-> 1, scale |-> 63]] }

Init ==
    /\ \E ch \in Channels, n1 \in 0..MaxPerFilter, n2 \in 0..MaxPerFilter :
          files = ImageFiles(ch, n1, n2,
                     [i \in 1..(n1 + n2) |-> [shape |-> ch.shape, wcs |-> ch.wcs]])
    /\ stale = {}
    /\ rerun = FALSE
    /\ InitNotebook

Next ==
    \/ Enumerate \/ Group \/ Select \/ LoadImages \/ LoadPhot \/ Clean \/ Coord
    \/ CrossMatch \/ LoadCat \/ SelectFov \/ MatchInp \/ Cmd

Spec == Init /\ [][Next]_vars

(***************************************************************************)
(* The whole notebook on directories of other geometries: the first image  *)
(* of each filter may be a subarray of one pixel, declination may fall     *)
(* with y, and the photometry directory may still hold the pickle of an    *)
(* image that is no longer in the images directory.                        *)
(***************************************************************************)
SubarrayShape == <<4, 4>>

\* the WCS of the channel turned upside down: the same field, declination
\* falling with y
Flipped(ch) ==
    [ch.wcs EXCEPT !.dec0 = ch.wcs.dec0 + ch.wcs.scale * (ch.shape[1] - 4),
                   !.sdec = -1]

Geometries(ch, n1, n2) ==
    { [i \in 1..(n1 + n2) |-> [shape |-> ch.shape, wcs |-> ch.wcs]],
      [i \in 1..(n1 + n2) |->
          [shape |-> IF i \in {1, n1 + 1} THEN SubarrayShape ELSE ch.shape,
           wcs |-> ch.wcs]],
      [i \in 1..(n1 + n2) |-> [shape |-> ch.shape, wcs |-> Flipped(ch)]] }

\* 'phot_<det>_<filtA>_0.pkl', measured on an image that was removed
StalePickle(ch) ==
    [det  |-> Lower(NormDetector(ch.DETECTOR)),
     name |-> ch.filtA \o <<95, 48>>,
     of   |-> 0, rows |-> <<RowB>>]

InitGeom ==
    /\ \E ch \in Channels, n1 \in 0..MaxPerFilter, n2 \in 0..MaxPerFilter :
          /\ files \in { ImageFiles(ch, n1, n2, g) : g \in Geometries(ch, n1, n2) }
          /\ stale \in { {}, {StalePickle(ch)} }
    /\ rerun = FALSE
    /\ InitNotebook

SpecGeom == InitGeom /\ [][Next]_vars

(***************************************************************************)
(* Properties of the first two cells                                       *)
(***************************************************************************)
\* what the claims say of one image file, written out from the header
ClaimDetector(h) ==
    IF h.DETECTOR = NRCALONG THEN NRCA5
    ELSE IF h.DETECTOR = NRCBLONG THEN NRCB5 ELSE h.DETECTOR
ClaimFilter(h) == IF h.PUPIL # CLEAR THEN h.PUPIL ELSE h.FILTER
\* the two-digit number at characters 2-3 of the effective filter name
ClaimNumber(h) == 10 * (ClaimFilter(h)[2] - 48) + (ClaimFilter(h)[3] - 48)
ClaimLong(h) == ClaimNumber(h) > 24

\* the paths of the set S in the order of the sorted glob result
RECURSIVE InGlobOrder(_)
InGlobOrder(S) ==
    IF S = {} THEN <<>>
    ELSE LET m == CHOOSE x \in S : \A y \in S : x <= y
         IN  <<m>> \o InGlobOrder(S \ {m})

\* number of places of dict_images that hold path i
Places(i) ==
    { <<d, f, k>> \in
        UNION { UNION { { <<d, f, k>> : k \in DOMAIN dict_images[d][f].images } :
                          f \in { g \in DOMAIN dict_images[d] :
                                    PyLen(dict_images[d][g]) > 0 } } :
                d \in DOMAIN dict_images } :
      dict_images[d][f].images[k] = i }

\* C3: after the enumeration cell and the grouping cell have each run once,
\* in order, every image path is at exactly one place of dict_images, in
\* dict_images[d][f]['images'] for its normalised detector d and effective
\* filter f, and every list keeps the sorted order of the glob result.
C3_EachImageOnceInPlace ==
    (nEnum = 1 /\ nGroup = 1) =>
        \A i \in 1..Len(files) :
            LET d == ClaimDetector(files[i])
                f == ClaimFilter(files[i])
            IN  /\ Cardinality(Places(i)) = 1
                /\ d \in DOMAIN dict_images
                /\ f \in DOMAIN dict_images[d]
                /\ PyLen(dict_images[d][f]) = 1
                /\ dict_images[d][f].images =
                     InGlobOrder({ j \in 1..Len(files) :
                                    ClaimDetector(files[j]) = d
                                    /\ ClaimFilter(files[j]) = f })

\* no detector has images in both wavelength channels
OneChannelPerDetector ==
    \A i, j \in 1..Len(files) :
        ClaimDetector(files[i]) = ClaimDetector(files[j])
            => (ClaimLong(files[i]) <=> ClaimLong(files[j]))

\* C3 where every detector has images in one channel only
C3_OneChannel == OneChannelPerDetector => C3_EachImageOnceInPlace

StrictlySorted(list) ==
    \A i \in 1..(Len(list) - 1) : StrLess(list[i], list[i + 1])

\* the effective filters seen in a channel over all images
ChannelFilters(long) ==
    { ClaimFilter(files[i]) :
        i \in { j \in 1..Len(files) : ClaimLong(files[j]) = long } }
ChannelDetectors(long) ==
    { ClaimDetector(files[i]) :
        i \in { j \in 1..Len(files) : ClaimLong(files[j]) = long } }

\* C9: after the enumeration loop the lists of available detectors and
\* filters of each channel are sorted and duplicate-free; a detector with an
\* image in a channel has as keys all effective filters seen in that channel,
\* each mapped to an empty dict; a detector with no image keeps an empty dict.
C9_KeysAreChannelFilters ==
    (nEnum >= 1 /\ pc = "enumerated") =>
        /\ StrictlySorted(detlist_short) /\ StrictlySorted(detlist_long)
        /\ StrictlySorted(filtlist_short) /\ StrictlySorted(filtlist_long)
        /\ Items(detlist_short) = ChannelDetectors(FALSE)
        /\ Items(detlist_long) = ChannelDetectors(TRUE)
        /\ Items(filtlist_short) = ChannelFilters(FALSE)
        /\ Items(filtlist_long) = ChannelFilters(TRUE)
        /\ \A long \in BOOLEAN : \A d \in ChannelDetectors(long) :
              /\ d \in DOMAIN dict_images
              /\ DOMAIN dict_images[d] = ChannelFilters(long)
              /\ \A f \in DOMAIN dict_images[d] : PyLen(dict_images[d][f]) = 0
        /\ \A d \in DOMAIN dict_images :
              d \notin (ChannelDetectors(FALSE) \cup ChannelDetectors(TRUE))
                  => PyLen(dict_images[d]) = 0

\* C9 where every detector has images in one channel only
C9_OneChannel == OneChannelPerDetector => C9_KeysAreChannelFilters

\* C10: an image goes to the long-wavelength channel exactly when the number
\* at characters 2-3 of its effective filter is greater than 24 and to the
\* short-wavelength channel otherwise: each channel's lists hold, in image
\* order, the filters and detectors of exactly the images of that channel.
C10_ChannelByFilterNumber ==
    nEnum >= 1 =>
        LET longs  == InGlobOrder({ j \in 1..Len(files) : ClaimNumber(files[j]) > 24 })
            shorts == InGlobOrder({ j \in 1..Len(files) : ~(ClaimNumber(files[j]) > 24) })
        IN  /\ ff_long   = [k \in DOMAIN longs  |-> ClaimFilter(files[longs[k]])]
            /\ det_long  = [k \in DOMAIN longs  |-> ClaimDetector(files[longs[k]])]
            /\ ff_short  = [k \in DOMAIN shorts |-> ClaimFilter(files[shorts[k]])]
            /\ det_short = [k \in DOMAIN shorts |-> ClaimDetector(files[shorts[k]])]
            /\ Len(ff_long) + Len(ff_short) = Len(files)

\* the enumeration has put an F250M image (25) in the long-wavelength lists
\* and an F212N image (21) in the short-wavelength lists
C10_Witness ==
    /\ nEnum >= 1
    /\ F250M \in Items(ff_long)
    /\ F212N \in Items(ff_short)

(***************************************************************************)
(* Properties of the photometry cells                                      *)
(***************************************************************************)
\* the cells in the order of the notebook; Completed(c) says that cell c
\* ran to its end
Cells == <<"start", "enumerated", "grouped", "selected", "images", "phot",
           "clean", "radec", "matched", "cat", "fov", "lmc", "cmd">>
CellNo(c) == CHOOSE k \in DOMAIN Cells : Cells[k] = c
Completed(c) == CellNo(pc) >= CellNo(c)

Rows(table) == { table[k] : k \in DOMAIN table }

\* the square of the distance of two sky positions, in sky units of 0.25
\* milli-arcsec, and of a position to the nearest row of a non-empty table
Dist2(p, q) == (p.ra - q.ra) * (p.ra - q.ra) + (p.dec - q.dec) * (p.dec - q.dec)
Nearest2(p, table) ==
    CHOOSE d \in { Dist2(p, table[k].radec) : k \in DOMAIN table } :
        \A m \in DOMAIN table : d <= Dist2(p, table[m].radec)

\* separation / 0.031 arcsec < 0.5: with 0.031 arcsec = 124 sky units,
\* 2 * separation < 124
WithinHalfPixel(d2) == 4 * d2 < 124 * 124
AtHalfPixel(d2) == 4 * d2 = 124 * 124

\* the entry of matches_phot_1 and matches_phot_2 for catalogs i and j (from 1)
Entry(i, j) == (i - 1) * Len(results_final_2) + j

\* the photometry columns of a row
Measured(row) ==
    [x_fit |-> row.x_fit, y_fit |-> row.y_fit,
     flux_fit |-> row.flux_fit, flux_unc |-> row.flux_unc]

\* the rows of a table that lie strictly inside an image of the shape
\* (ny, nx) with a strictly positive flux, in their order
RECURSIVE ValidRows(_, _)
ValidRows(table, shape) ==
    IF table = <<>> THEN <<>>
    ELSE LET r == Head(table)
             ok == /\ 0 < r.x_fit /\ r.x_fit < shape[2]
                   /\ 0 < r.y_fit /\ r.y_fit < shape[1]
                   /\ r.flux_fit > 0
         IN  (IF ok THEN <<Measured(r)>> ELSE <<>>) \o ValidRows(Tail(table), shape)

\* C1: in the cross-match of the two filters, for every pair of catalogs
\* (res1, res2), the filter-1 sources that are paired are exactly those
\* whose nearest neighbour in res2 is less than 0.5 px away, each is paired
\* once, and its partner is a source of res2 at that nearest distance; a
\* source whose nearest neighbour is 0.5 px or more away is dropped.
C1_PairedIffNearestWithinHalfPixel ==
    Completed("matched") =>
        \A i \in DOMAIN results_final_1, j \in DOMAIN results_final_2 :
            LET res1 == results_final_1[i]
                res2 == results_final_2[j]
                m1   == matches_phot_1[Entry(i, j)]
                m2   == matches_phot_2[Entry(i, j)]
                near == { a \in DOMAIN res1 :
                            WithinHalfPixel(Nearest2(res1[a].radec, res2)) }
            IN  /\ Rows(m1) = { res1[a] : a \in near }
                /\ Len(m1) = Cardinality(near)
                /\ Len(m2) = Len(m1)
                /\ \A k \in DOMAIN m1 :
                      /\ m2[k] \in Rows(res2)
                      /\ Dist2(m1[k].radec, m2[k].radec) = Nearest2(m1[k].radec, res2)
                      /\ WithinHalfPixel(Dist2(m1[k].radec, m2[k].radec))

\* a pair of catalogs with one source paired and one dropped whose nearest
\* neighbour is exactly 0.5 px away
C1_Witness ==
    /\ pc = "matched" /\ det = NRCB1
    /\ \E i \in DOMAIN results_final_1, j \in DOMAIN results_final_2 :
          /\ Len(matches_phot_1[Entry(i, j)]) >= 1
          /\ \E a \in DOMAIN results_final_1[i] :
                /\ AtHalfPixel(Nearest2(results_final_1[i][a].radec, results_final_2[j]))
                /\ results_final_1[i][a] \notin Rows(matches_phot_1[Entry(i, j)])

\* C2: for every image index i of either filter, the cleaned catalog holds
\* exactly the rows of the i-th photometry table with 0 < x_fit < width and
\* 0 < y_fit < height of image i and flux_fit > 0, in their original order.
C2_CleanKeepsValidRows ==
    Completed("clean") =>
        /\ Len(results_clean_1) = Len(images_1)
        /\ Len(results_clean_2) = Len(images_2)
        /\ \A i \in DOMAIN images_1 :
              [k \in DOMAIN results_clean_1[i] |-> Measured(results_clean_1[i][k])]
                  = ValidRows(results_1[i], images_1[i].shape)
        /\ \A i \in DOMAIN images_2 :
              [k \in DOMAIN results_clean_2[i] |-> Measured(results_clean_2[i][k])]
                  = ValidRows(results_2[i], images_2[i].shape)

\* C2 where all images of a filter have the shape of the first
C2_SameShape ==
    (/\ \A i \in DOMAIN images_1 : images_1[i].shape = images_1[1].shape
     /\ \A i \in DOMAIN images_2 : images_2[i].shape = images_2[1].shape)
        => C2_CleanKeepsValidRows

\* the sky rectangle spanned by the WCS positions of pixel (0, 0) and pixel
\* (width - 1, height - 1) of an image: one pixel is 4 quarter pixels
InRectangle(star, img) ==
    LET c0 == WcsApply(img.wcs, 0, 0)
        c1 == WcsApply(img.wcs, img.shape[2] - 4, img.shape[1] - 4)
        lo(a, b) == IF a <= b THEN a ELSE b
        hi(a, b) == IF a <= b THEN b ELSE a
    IN  /\ lo(c0.ra, c1.ra) < star.ra_in /\ star.ra_in < hi(c0.ra, c1.ra)
        /\ lo(c0.dec, c1.dec) < star.dec_in /\ star.dec_in < hi(c0.dec, c1.dec)

\* C4: cat_sel holds exactly the stars of the catalog that lie strictly
\* inside the sky rectangle spanned by the two corners of the first filter-1
\* image, whichever corner has the larger right ascension and whichever has
\* the larger declination.
C4_StarsInsideField ==
    Completed("fov") =>
        /\ Rows(cat_sel) = { cat[k] : k \in { m \in DOMAIN cat :
                                              InRectangle(cat[m], images_1[1]) } }
        /\ Len(cat_sel) = Cardinality(Rows(cat_sel))

\* C4 where declination grows from the first corner to the second
C4_DeclinationGrows ==
    (Completed("fov") /\ dec_lim[1] <= dec_lim[2]) => C4_StarsInsideField

\* C5: after the cross-match with the input catalog, match_phot_inp,
\* match_phot_out_1 and match_phot_out_2 have the same number of rows, at
\* most that of cat_sel; row k of match_phot_inp is an input star, row k of
\* match_phot_out_1 is the source of catalog1 nearest to that star, less
\* than 0.5 px away, and row k of match_phot_out_2 is the filter-2 source
\* that the filter cross-match paired with that source of catalog1.
C5_InputMatchAligned ==
    Completed("lmc") =>
        /\ Len(match_phot_out_1) = Len(match_phot_inp)
        /\ Len(match_phot_out_2) = Len(match_phot_inp)
        /\ Len(match_phot_inp) <= Len(cat_sel)
        /\ \A k \in DOMAIN match_phot_inp :
              /\ \E s \in DOMAIN cat_sel :
                    /\ match_phot_inp[k].radec =
                          [ra |-> cat_sel[s].ra_in, dec |-> cat_sel[s].dec_in]
                    /\ match_phot_inp[k].filt1 = cat_sel[s].F115W
                    /\ match_phot_inp[k].filt2 = cat_sel[s].F200W
              /\ Dist2(match_phot_inp[k].radec, match_phot_out_1[k].radec)
                    = Nearest2(match_phot_inp[k].radec, matches_phot_1[1])
              /\ WithinHalfPixel(Dist2(match_phot_inp[k].radec,
                                       match_phot_out_1[k].radec))
              /\ \E m \in DOMAIN matches_phot_1[1] :
                    /\ matches_phot_1[1][m] = match_phot_out_1[k]
                    /\ matches_phot_2[1][m] = match_phot_out_2[k]

\* the field holds a star that is matched and a star that is not
C5_Witness ==
    /\ pc = "lmc"
    /\ Len(match_phot_inp) >= 1
    /\ Len(match_phot_inp) < Len(cat_sel)
    /\ match_phot_out_1[1] # match_phot_out_2[1]

\* the pickle that a file name of the photometry directory stands for
PickleAt(name) == CHOOSE p \in pickles : p.det = Lower(det) /\ p.name = name

\* C6: for every index i below the number of loaded images of a filter, the
\* i-th file of the sorted pickle glob is the photometry of the i-th image
\* of dict_images[det][filter]['images'] and its table gets its sky
\* coordinates from the WCS of that image; the cleaned and the final lists
\* have one entry per loaded image.
C6_TableOfItsImage ==
    Completed("radec") =>
        /\ Len(results_clean_1) = Len(images_1)
        /\ Len(results_final_1) = Len(images_1)
        /\ Len(results_clean_2) = Len(images_2)
        /\ Len(results_final_2) = Len(images_2)
        /\ \A i \in DOMAIN images_1 :
              /\ images_1[i].path = dict_images[det][filt1].images[i]
              /\ PickleAt(phots_pkl_1[i]).of = images_1[i].path
              /\ \A k \in DOMAIN results_final_1[i] :
                    results_final_1[i][k].radec =
                        WcsApply(files[images_1[i].path].wcs,
                                 results_final_1[i][k].x_fit,
                                 results_final_1[i][k].y_fit)
        /\ \A i \in DOMAIN images_2 :
              /\ images_2[i].path = dict_images[det][filt2].images[i]
              /\ PickleAt(phots_pkl_2[i]).of = images_2[i].path
              /\ \A k \in DOMAIN results_final_2[i] :
                    results_final_2[i][k].radec =
                        WcsApply(files[images_2[i].path].wcs,
                                 results_final_2[i][k].x_fit,
                                 results_final_2[i][k].y_fit)

\* C6 where the photometry directory holds the pickles of the images of the
\* images directory and no other
C6_NoStalePickle == stale = {} => C6_TableOfItsImage

\* C7: when the cross-match cell has run, matches_phot_1 and matches_phot_2
\* each hold n1 * n2 entries, entry i * n2 + j (from 0) for filter-1 catalog
\* i and filter-2 catalog j; in every entry the two tables have the same
\* number of rows and row k of matches_phot_2 is the counterpart of row k of
\* matches_phot_1; the cells that follow use entry 0 only.
C7_OneEntryPerPair ==
    /\ Completed("matched") =>
          /\ Len(matches_phot_1) = Len(results_final_1) * Len(results_final_2)
          /\ Len(matches_phot_2) = Len(results_final_1) * Len(results_final_2)
          /\ \A i \in DOMAIN results_final_1, j \in DOMAIN results_final_2 :
                LET m1 == matches_phot_1[Entry(i, j)]
                    m2 == matches_phot_2[Entry(i, j)]
                IN  /\ Len(m1) = Len(m2)
                    /\ Rows(m1) = { r \in Rows(results_final_1[i]) :
                          WithinHalfPixel(Nearest2(r.radec, results_final_2[j])) }
                    /\ \A k \in DOMAIN m1 :
                          /\ m2[k] \in Rows(results_final_2[j])
                          /\ Dist2(m1[k].radec, m2[k].radec)
                                = Nearest2(m1[k].radec, results_final_2[j])
    /\ Completed("lmc") =>
          /\ catalog1 = matches_phot_1[1]
          /\ catalog2 = matches_phot_2[1]
    /\ Completed("cmd") =>
          /\ mag_out = [k \in DOMAIN matches_phot_1[1] |-> matches_phot_1[1][k].inst]
          /\ col_out = [k \in DOMAIN matches_phot_1[1] |->
                          matches_phot_1[1][k].inst - matches_phot_2[1][k].inst]

\* two catalogs in each filter, the entries of the pairs (0, 1) and (1, 0)
\* differ, and the plot is drawn
C7_Witness ==
    /\ pc = "cmd"
    /\ Len(results_final_1) = 2 /\ Len(results_final_2) = 2
    /\ Len(matches_phot_1) = 4
    /\ matches_phot_1[2] # matches_phot_1[3]
    /\ matches_phot_2[2] # matches_phot_2[3]
    /\ Len(matches_phot_1[4]) >= 1

C11_OneToOne ==
    /\ Completed("matched") =>
          \A e \in DOMAIN matches_phot_2 :
              \A k, l \in DOMAIN matches_phot_2[e] :
                  k # l => Measured(matches_phot_2[e][k]) # Measured(matches_phot_2[e][l])
    /\ Completed("lmc") =>
          \A k, l \in DOMAIN catalog2 :
              k # l => Measured(catalog2[k]) # Measured(catalog2[l])

\* C11 where no two sources of a filter-1 catalog lie less than one pixel
\* apart, so that no two of them are within 0.5 px of the same source
C11_SourcesApart ==
    (\A i \in DOMAIN results_final_1 :
        \A a, b \in DOMAIN results_final_1[i] :
            a # b => ~(Dist2(results_final_1[i][a].radec,
                             results_final_1[i][b].radec) < 124 * 124))
        => C11_OneToOne

\* C12: whatever the headers of the images, the grouping loop looks up no
\* missing key: when the grouping cell runs, dict_images[d][f] exists for
\* the normalised detector d and the effective filter f of every image, and
\* the cell ends without a KeyError.
C12_NoMissingKey ==
    /\ pc = "enumerated" /\ err = "none" =>
          \A i \in 1..Len(files) :
              /\ ClaimDetector(files[i]) \in DOMAIN dict_images
              /\ ClaimFilter(files[i]) \in DOMAIN dict_images[ClaimDetector(files[i])]
    /\ err # "KeyError"

\* C12 where every detector has images in one channel only
C12_OneChannel == OneChannelPerDetector => C12_NoMissingKey

\* the grouping cell ran to its end on a directory with an image of a
\* detector that dict_images does not declare
C12_UndeclaredGrouped ==
    ~(/\ pc = "grouped" /\ err = "none"
      /\ \E i \in 1..Len(files) : files[i].DETECTOR = NIS)

\* C13: after any sequence of executions of the enumeration cell and the
\* grouping cell, every image path is at no more than one place of
\* dict_images.
C13_AtMostOnce ==
    nEnum >= 1 => \A i \in 1..Len(files) : Cardinality(Places(i)) <= 1

\* C13 where the grouping cell has run once at most
C13_GroupedOnce == nGroup <= 1 => C13_AtMostOnce

====
